---- MODULE Spec2Model ----
(***************************************************************************)
(* Model of src/routers/download.py: the GET /download/{digest_id}         *)
(* handler download_ingest and its helper validate_file_content.           *)
(*                                                                         *)
(* The filesystem under TMP_BASE_PATH is owned by an external ingestion    *)
(* process.  A file's bytes are kept as a short explicit prefix `head`     *)
(* followed by `pad` copies of the byte 97 ('a'), so that files around the *)
(* real 50 MiB limit are representable.  A str is kept the same way, as a  *)
(* prefix of code points followed by `pad` copies of 'a'.                  *)
(*                                                                         *)
(* open(path, "r") is modelled for a UTF-8 locale: strict UTF-8 decoding   *)
(* followed by universal-newline translation.                              *)
(***************************************************************************)
EXTENDS Integers, Sequences, FiniteSets, TLC

VARIABLES fs, ver, req

vars == <<fs, ver, req>>

\* ------------------------------------------------------------------ bounds
MaxHead == 2
MaxEntries == 2
MaxFsChanges == 1

\* --------------------------------------------------------------- constants
MAX_FILE_SIZE_BYTES == 50 * 1024 * 1024

Requests == {"r1", "r2"}

DigestIds == {"d1", "d2"}

\* byte values that occur in file heads: LF, CR, space, 'a', and the two
\* bytes of U+00E9 (0xC3 0xA9), which are invalid when they stand alone
Bytes == {10, 13, 32, 97, 195, 169}

A_TXT == <<"a", ".", "t", "x", "t">>
B_TXT == <<"b", ".", "t", "x", "t">>
N_MD == <<"n", ".", "m", "d">>
TXT == <<"t", "x", "t">>

Names == {A_TXT, B_TXT, N_MD, TXT}

DOT_TXT == <<".", "t", "x", "t">>

None == [kind |-> "none"]

\* ------------------------------------------------------- string functions
\* str.endswith
endswith(s, suffix) ==
    /\ Len(s) >= Len(suffix)
    /\ SubSeq(s, Len(s) - Len(suffix) + 1, Len(s)) = suffix

\* str(int) for a non-negative int: its decimal digits
RECURSIVE str_int(_)
str_int(n) ==
    IF n < 10 THEN <<n>> ELSE Append(str_int(n \div 10), n % 10)

\* int(str): the inverse reading of a digit sequence
RECURSIVE int_str(_)
int_str(ds) ==
    IF Len(ds) = 0 THEN 0
    ELSE 10 * int_str(SubSeq(ds, 1, Len(ds) - 1)) + ds[Len(ds)]

\* strict UTF-8 decoding of a byte sequence (one- and two-byte forms);
\* the result is <<TRUE, code points>> or <<FALSE, <<>>>> (UnicodeDecodeError)
RECURSIVE utf8_decode(_)
utf8_decode(bs) ==
    IF Len(bs) = 0 THEN <<TRUE, <<>>>>
    ELSE IF bs[1] < 128
         THEN LET rest == utf8_decode(Tail(bs))
              IN  IF rest[1] THEN <<TRUE, <<bs[1]>> \o rest[2]>>
                  ELSE <<FALSE, <<>>>>
    ELSE IF /\ bs[1] >= 194
            /\ bs[1] <= 223
            /\ Len(bs) >= 2
            /\ bs[2] >= 128
            /\ bs[2] <= 191
         THEN LET rest == utf8_decode(Tail(Tail(bs)))
              IN  IF rest[1]
                  THEN <<TRUE, <<(bs[1] - 192) * 64 + (bs[2] - 128)>> \o rest[2]>>
                  ELSE <<FALSE, <<>>>>
    ELSE <<FALSE, <<>>>>

\* str.encode('utf-8') for code points below U+0800
RECURSIVE utf8_encode(_)
utf8_encode(cs) ==
    IF Len(cs) = 0 THEN <<>>
    ELSE IF cs[1] < 128 THEN <<cs[1]>> \o utf8_encode(Tail(cs))
    ELSE <<192 + (cs[1] \div 64), 128 + (cs[1] % 64)>> \o utf8_encode(Tail(cs))

\* universal newlines of text-mode reading: "\r\n" and "\r" become "\n"
RECURSIVE translate_newlines(_)
translate_newlines(cs) ==
    IF Len(cs) = 0 THEN <<>>
    ELSE IF cs[1] = 13
         THEN IF Len(cs) >= 2 /\ cs[2] = 10
              THEN <<10>> \o translate_newlines(Tail(Tail(cs)))
              ELSE <<10>> \o translate_newlines(Tail(cs))
    ELSE <<cs[1]>> \o translate_newlines(Tail(cs))

\* str.isspace for one code point below U+0800
isspace(c) == c \in (9..13) \cup (28..32) \cup {133, 160}

\* `not content.strip()`
strip_is_empty(content) ==
    /\ content.pad = 0
    /\ \A i \in 1..Len(content.head) : isspace(content.head[i])

\* len(content.encode('utf-8'))
encoded_len(content) == Len(utf8_encode(content.head)) + content.pad

\* content.encode('utf-8'), in the head/pad representation
encode_body(content) == [head |-> utf8_encode(content.head), pad |-> content.pad]

NoError == <<"ok">>

EmptyMsg == <<"File is empty">>

TooLargeMsg ==
    <<"File size exceeds maximum limit of ",
      str_int((MAX_FILE_SIZE_BYTES \div 1024) \div 1024), "MB">>

validate_file_content(content) ==
    IF strip_is_empty(content) THEN EmptyMsg
    ELSE IF encoded_len(content) > MAX_FILE_SIZE_BYTES THEN TooLargeMsg
    ELSE NoError

\* ------------------------------------------------------------- filesystem
\* fs[d] is what lies at TMP_BASE_PATH/d: nothing, a non-directory, or a
\* directory with its permission bits and its entries in listing order.
\* ver[d] counts the changes the ingestion process made to fs[d].
Absent == [kind |-> "absent"]

NotADir == [kind |-> "file"]

Dir(list_ok, search_ok, entries) ==
    [kind |-> "dir", list_ok |-> list_ok, search_ok |-> search_ok,
     entries |-> entries]

File(readable, ioerr, head, pad) ==
    [kind |-> "file", readable |-> readable, ioerr |-> ioerr,
     head |-> head, pad |-> pad]

SubDir == [kind |-> "dir"]

Dangling == [kind |-> "dangling"]

Entry(name, node) == [name |-> name, node |-> node]

EntryIndex(d, name) ==
    {i \in 1..Len(fs[d].entries) : fs[d].entries[i].name = name}

\* ------------------------------------------------------------- exceptions
Exc(cls, status, detail) == [cls |-> cls, status |-> status, detail |-> detail]

HTTPException(status, detail) == Exc("HTTPException", status, detail)

OSErr(cls, path) == Exc(cls, 0, path)

NoExc == Exc("none", 0, "")

\* the classes an exception of class cls is an instance of
Mro(cls) ==
    CASE cls = "FileNotFoundError" -> {cls, "OSError", "Exception"}
      [] cls = "PermissionError" -> {cls, "OSError", "Exception"}
      [] cls = "NotADirectoryError" -> {cls, "OSError", "Exception"}
      [] cls = "IsADirectoryError" -> {cls, "OSError", "Exception"}
      [] cls = "OSError" -> {cls, "Exception"}
      [] cls = "UnicodeDecodeError" -> {cls, "ValueError", "Exception"}
      [] cls = "HTTPException" -> {cls, "Exception"}

isinstance(e, cls) == cls \in Mro(e.cls)

\* variant: the catch-all clause tried first
except_clauses_generic_first(e) ==
    IF isinstance(e, "Exception")
    THEN HTTPException(500, "Internal server error")
    ELSE IF isinstance(e, "FileNotFoundError")
    THEN HTTPException(404, "Digest not found")
    ELSE HTTPException(403, "Permission denied accessing digest")

\* the except clauses of download_ingest, tried in order, applied to an
\* exception raised anywhere in the try body; the result is the
\* HTTPException that leaves the handler
except_clauses(e) ==
    IF isinstance(e, "FileNotFoundError")
    THEN HTTPException(404, "Digest not found")
    ELSE IF isinstance(e, "PermissionError")
    THEN HTTPException(403, "Permission denied accessing digest")
    ELSE IF isinstance(e, "Exception")
    THEN HTTPException(500, "Internal server error")
    ELSE e

\* what the framework sends for an HTTPException leaving the handler
ErrorResponse(e) == [kind |-> "error", status |-> e.status, detail |-> e.detail]

\* ------------------------------------------------------- filesystem calls
Ok(v) == [ok |-> TRUE, val |-> v]

Fail(e) == [ok |-> FALSE, exc |-> e]

os_path_exists(d) == fs[d].kind # "absent"

os_listdir(d) ==
    IF fs[d].kind = "absent" THEN Fail(OSErr("FileNotFoundError", <<d>>))
    ELSE IF fs[d].kind = "file" THEN Fail(OSErr("NotADirectoryError", <<d>>))
    ELSE IF ~fs[d].list_ok THEN Fail(OSErr("PermissionError", <<d>>))
    ELSE Ok([i \in 1..Len(fs[d].entries) |-> fs[d].entries[i].name])

\* path resolution of TMP_BASE_PATH/d/name, shared by stat and open
resolve(d, name) ==
    IF fs[d].kind = "absent" THEN Fail(OSErr("FileNotFoundError", <<d, name>>))
    ELSE IF fs[d].kind = "file" THEN Fail(OSErr("NotADirectoryError", <<d, name>>))
    ELSE IF ~fs[d].search_ok THEN Fail(OSErr("PermissionError", <<d, name>>))
    ELSE IF EntryIndex(d, name) = {} THEN Fail(OSErr("FileNotFoundError", <<d, name>>))
    ELSE LET node == fs[d].entries[CHOOSE i \in EntryIndex(d, name) : TRUE].node
         IN  IF node.kind = "dangling"
             THEN Fail(OSErr("FileNotFoundError", <<d, name>>))
             ELSE Ok(node)

os_path_getsize(d, name) ==
    LET n == resolve(d, name)
    IN  IF ~n.ok THEN n
        ELSE IF n.val.kind = "dir" THEN Ok(4096)
        ELSE Ok(Len(n.val.head) + n.val.pad)

open_r(d, name) ==
    LET n == resolve(d, name)
    IN  IF ~n.ok THEN n
        ELSE IF n.val.kind = "dir" THEN Fail(OSErr("IsADirectoryError", <<d, name>>))
        ELSE IF ~n.val.readable THEN Fail(OSErr("PermissionError", <<d, name>>))
        ELSE Ok([kind |-> "open", node |-> n.val])

\* f.read() on a text-mode handle
f_read(fh) ==
    LET dec == utf8_decode(fh.node.head)
    IN  IF fh.node.ioerr THEN Fail(OSErr("OSError", <<"EIO">>))
        ELSE IF ~dec[1]
        THEN Fail(Exc("UnicodeDecodeError", 0, <<"utf-8">>))
        ELSE Ok([head |-> translate_newlines(dec[2]), pad |-> fh.node.pad])

\* [f for f in names if f.endswith('.txt')]
RECURSIVE txt_filter(_)
txt_filter(names) ==
    IF Len(names) = 0 THEN <<>>
    ELSE IF endswith(names[1], DOT_TXT)
         THEN <<names[1]>> \o txt_filter(Tail(names))
         ELSE txt_filter(Tail(names))

\* --------------------------------------------------------------- response
ATTACHMENT ==
    <<"a", "t", "t", "a", "c", "h", "m", "e", "n", "t", ";", " ",
      "f", "i", "l", "e", "n", "a", "m", "e", "=">>

\* f"attachment; filename={txt_files[0]}"
content_disposition(name) == ATTACHMENT \o name

\* variant: the length in characters instead of in encoded bytes
content_length_chars(content) == str_int(Len(content.head) + content.pad)

\* str(len(content.encode('utf-8')))
content_length(content) == str_int(encoded_len(content))

Response(content, name) ==
    [kind |-> "ok", status |-> 200, media_type |-> "text/plain",
     body |-> encode_body(content),
     content_disposition |-> content_disposition(name),
     content_length |-> content_length(content)]

\* ------------------------------------------------------- request handling
\* req[r] is one invocation of download_ingest: its position, its locals,
\* and a record of what it did (steps, raised, v0, v1).
IdleReq ==
    [pc |-> "idle", digest_id |-> "d1", txt_files |-> <<>>, file_size |-> 0,
     fh |-> None, content |-> None, exc |-> NoExc, raised |-> NoExc,
     error_msg |-> NoError, resp |-> None, steps |-> <<>>, v0 |-> 0, v1 |-> 0]

Did(q, step) == [q EXCEPT !.steps = Append(@, step)]

\* an exception raised in the try body reaches the except clauses and the
\* resulting HTTPException leaves the handler
Raise(q, e) ==
    [q EXCEPT !.pc = "done", !.raised = e, !.exc = NoExc,
              !.resp = ErrorResponse(except_clauses(e)),
              !.v1 = ver[q.digest_id]]

Start(r, d) ==
    /\ req[r].pc = "idle"
    /\ req' = [req EXCEPT ![r] = [IdleReq EXCEPT !.pc = "exists",
                                                 !.digest_id = d,
                                                 !.v0 = ver[d]]]
    /\ UNCHANGED <<fs, ver>>

Exists(r) ==
    /\ req[r].pc = "exists"
    /\ LET q == Did(req[r], "exists")
       IN  req' = [req EXCEPT ![r] =
                IF ~os_path_exists(q.digest_id)
                THEN Raise(q, HTTPException(404, "Digest directory not found"))
                ELSE [q EXCEPT !.pc = "listdir"]]
    /\ UNCHANGED <<fs, ver>>

ListDir(r) ==
    /\ req[r].pc = "listdir"
    /\ LET q == Did(req[r], "listdir")
           ls == os_listdir(q.digest_id)
       IN  req' = [req EXCEPT ![r] =
                IF ~ls.ok THEN Raise(q, ls.exc)
                ELSE IF Len(txt_filter(ls.val)) = 0
                THEN Raise(q, HTTPException(404, "No text file found for this digest"))
                ELSE [q EXCEPT !.pc = "getsize", !.txt_files = txt_filter(ls.val)]]
    /\ UNCHANGED <<fs, ver>>

GetSize(r) ==
    /\ req[r].pc = "getsize"
    /\ LET q == Did(req[r], "getsize")
           sz == os_path_getsize(q.digest_id, q.txt_files[1])
       IN  req' = [req EXCEPT ![r] =
                IF ~sz.ok THEN Raise(q, sz.exc)
                ELSE IF sz.val > MAX_FILE_SIZE_BYTES
                THEN Raise([q EXCEPT !.file_size = sz.val],
                           HTTPException(413, "File too large to download"))
                ELSE [q EXCEPT !.pc = "open", !.file_size = sz.val]]
    /\ UNCHANGED <<fs, ver>>

Open(r) ==
    /\ req[r].pc = "open"
    /\ LET q == Did(req[r], "open")
           f == open_r(q.digest_id, q.txt_files[1])
       IN  req' = [req EXCEPT ![r] =
                IF ~f.ok THEN Raise(q, f.exc)
                ELSE [q EXCEPT !.pc = "read", !.fh = f.val]]
    /\ UNCHANGED <<fs, ver>>

\* content = f.read(); an exception is pending until the with block exits
Read(r) ==
    /\ req[r].pc = "read"
    /\ LET q == Did(req[r], "read")
           c == f_read(q.fh)
       IN  req' = [req EXCEPT ![r] =
                IF ~c.ok THEN [q EXCEPT !.pc = "close", !.exc = c.exc]
                ELSE [q EXCEPT !.pc = "close", !.content = c.val]]
    /\ UNCHANGED <<fs, ver>>

\* variant: close only after a successful read (no with block)
with_exit_leak(q) ==
    IF q.exc.cls # "none" THEN Raise(q, q.exc)
    ELSE [q EXCEPT !.pc = "validate", !.fh = None]

\* variant: the response is built without validating the content
with_exit_unvalidated(q) ==
    IF q.exc.cls # "none" THEN Raise([q EXCEPT !.fh = None], q.exc)
    ELSE [q EXCEPT !.pc = "respond", !.fh = None]

\* the exit of the with block: the handle is closed on both paths
with_exit(q) ==
    IF q.exc.cls # "none" THEN Raise([q EXCEPT !.fh = None], q.exc)
    ELSE [q EXCEPT !.pc = "validate", !.fh = None]

Close(r) ==
    /\ req[r].pc = "close"
    /\ req' = [req EXCEPT ![r] = with_exit(Did(req[r], "close"))]
    /\ UNCHANGED <<fs, ver>>

Validate(r) ==
    /\ req[r].pc = "validate"
    /\ LET q == Did(req[r], "validate")
           error_msg == validate_file_content(q.content)
       IN  req' = [req EXCEPT ![r] =
                IF error_msg # NoError
                THEN Raise([q EXCEPT !.error_msg = error_msg],
                           HTTPException(422, error_msg))
                ELSE [q EXCEPT !.pc = "respond"]]
    /\ UNCHANGED <<fs, ver>>

\* variant: the served file is removed after a successful download
RespondAndUnlink(r) ==
    /\ req[r].pc = "respond"
    /\ LET q == Did(req[r], "respond")
       IN  /\ req' = [req EXCEPT ![r] =
                  [q EXCEPT !.pc = "done",
                            !.resp = Response(q.content, q.txt_files[1]),
                            !.v1 = ver[q.digest_id]]]
           /\ fs' = [fs EXCEPT ![q.digest_id] =
                  IF @.kind = "dir"
                  THEN [@ EXCEPT !.entries =
                          SelectSeq(@, LAMBDA e : e.name # q.txt_files[1])]
                  ELSE @]
    /\ UNCHANGED ver

Respond(r) ==
    /\ req[r].pc = "respond"
    /\ LET q == Did(req[r], "respond")
       IN  req' = [req EXCEPT ![r] =
                [q EXCEPT !.pc = "done",
                          !.resp = Response(q.content, q.txt_files[1]),
                          !.v1 = ver[q.digest_id]]]
    /\ UNCHANGED <<fs, ver>>

\* ------------------------------------------------------ ingestion process
\* The external owner of the directories.  Files are replaced or removed
\* as whole directory entries, so an open handle keeps the node it opened.
GoodFile == File(TRUE, FALSE, <<97>>, 0)

EnvNodes ==
    {GoodFile, File(TRUE, FALSE, <<>>, 0), File(FALSE, FALSE, <<97>>, 0),
     File(TRUE, FALSE, <<13, 10>>, MAX_FILE_SIZE_BYTES)}

EnvNames == {A_TXT, N_MD}

Changes == ver["d1"] + ver["d2"]

Changed(d, dir) ==
    /\ Changes < MaxFsChanges
    /\ dir # fs[d]
    /\ fs' = [fs EXCEPT ![d] = dir]
    /\ ver' = [ver EXCEPT ![d] = @ + 1]
    /\ UNCHANGED req

EnvMkdir(d) ==
    /\ fs[d].kind = "absent"
    /\ Changed(d, Dir(TRUE, TRUE, <<>>))

EnvRemoveDir(d) ==
    /\ fs[d].kind = "dir"
    /\ Changed(d, Absent)

EnvRemoveFile(d, name) ==
    /\ fs[d].kind = "dir"
    /\ EntryIndex(d, name) # {}
    /\ Changed(d, [fs[d] EXCEPT !.entries =
                     SelectSeq(@, LAMBDA e : e.name # name)])

EnvWriteFile(d, name, node) ==
    /\ fs[d].kind = "dir"
    /\ Changed(d, [fs[d] EXCEPT !.entries =
                     IF EntryIndex(d, name) = {}
                     THEN Append(@, Entry(name, node))
                     ELSE [i \in 1..Len(@) |->
                             IF @[i].name = name THEN Entry(name, node) ELSE @[i]]])

\* ------------------------------------------------------- initial states
Heads == UNION {[1..n -> Bytes] : n \in 0..MaxHead}

Pads == {0, 1, MAX_FILE_SIZE_BYTES + 1} \cup {MAX_FILE_SIZE_BYTES - k : k \in 0..MaxHead}

StaticNodes ==
    {File(TRUE, FALSE, h, p) : h \in Heads, p \in Pads}
      \cup {File(FALSE, FALSE, <<97>>, 0), File(TRUE, TRUE, <<97>>, 0), SubDir, Dangling}

Listings ==
    {l \in UNION {[1..n -> Names] : n \in 0..MaxEntries} :
        \A i, j \in 1..Len(l) : i # j => l[i] # l[j]}

StaticDirs ==
    {Absent, NotADir}
      \cup {Dir(TRUE, TRUE, [i \in 1..Len(l) |-> Entry(l[i], n)]) :
              l \in Listings, n \in StaticNodes}
      \cup {Dir(lo, so, <<Entry(A_TXT, GoodFile)>>) : lo, so \in BOOLEAN}

RaceDirs ==
    {Absent, Dir(TRUE, TRUE, <<>>), Dir(TRUE, TRUE, <<Entry(A_TXT, GoodFile)>>),
     Dir(TRUE, TRUE, <<Entry(A_TXT, File(FALSE, FALSE, <<97>>, 0))>>),
     Dir(TRUE, TRUE, <<Entry(B_TXT, Dangling), Entry(A_TXT, GoodFile)>>)}

\* any populated tree, the ingestion process and two concurrent requests
Init ==
    /\ fs \in [DigestIds -> RaceDirs]
    /\ ver = [d \in DigestIds |-> 0]
    /\ req = [r \in Requests |-> IdleReq]

Next ==
    \/ \E r \in Requests, d \in DigestIds : Start(r, d)
    \/ \E r \in Requests : Exists(r)
    \/ \E r \in Requests : ListDir(r)
    \/ \E r \in Requests : GetSize(r)
    \/ \E r \in Requests : Open(r)
    \/ \E r \in Requests : Read(r)
    \/ \E r \in Requests : Close(r)
    \/ \E r \in Requests : Validate(r)
    \/ \E r \in Requests : Respond(r)
    \/ \E d \in DigestIds : EnvMkdir(d)
    \/ \E d \in DigestIds : EnvRemoveDir(d)
    \/ \E d \in DigestIds, name \in EnvNames : EnvRemoveFile(d, name)
    \/ \E d \in DigestIds, name \in EnvNames, node \in EnvNodes : EnvWriteFile(d, name, node)

Spec == Init /\ [][Next]_vars

\* one request over a tree that does not change, with every file content
InitStatic ==
    /\ \E dir \in StaticDirs :
          fs = [d \in DigestIds |-> IF d = "d1" THEN dir ELSE Absent]
    /\ ver = [d \in DigestIds |-> 0]
    /\ req = [r \in Requests |-> IdleReq]

NextStatic ==
    \/ \E d \in DigestIds : Start("r1", d)
    \/ Exists("r1")
    \/ ListDir("r1")
    \/ GetSize("r1")
    \/ Open("r1")
    \/ Read("r1")
    \/ Close("r1")
    \/ Validate("r1")
    \/ Respond("r1")

SpecStatic == InitStatic /\ [][NextStatic]_vars

\* ================================================================ claims
Done(r) == req[r].pc = "done"

TheDir(r) == fs[req[r].digest_id]

TxtEntries(dir) ==
    {i \in 1..Len(dir.entries) : endswith(dir.entries[i].name, DOT_TXT)}

OnlyTxt(dir) == dir.entries[CHOOSE i \in TxtEntries(dir) : TRUE]

\* byte-level newline normalisation: CR LF and a lone CR become LF
RECURSIVE NormalizedBytes(_)
NormalizedBytes(bs) ==
    IF Len(bs) = 0 THEN <<>>
    ELSE IF bs[1] = 13 /\ Len(bs) >= 2 /\ bs[2] = 10
         THEN <<10>> \o NormalizedBytes(Tail(Tail(bs)))
    ELSE IF bs[1] = 13 THEN <<10>> \o NormalizedBytes(Tail(bs))
    ELSE <<bs[1]>> \o NormalizedBytes(Tail(bs))

\* well-formed UTF-8 over the one- and two-byte forms
RECURSIVE WellFormed(_)
WellFormed(bs) ==
    \/ Len(bs) = 0
    \/ bs[1] < 128 /\ WellFormed(Tail(bs))
    \/ /\ Len(bs) >= 2
       /\ bs[1] \in 194..223
       /\ bs[2] \in 128..191
       /\ WellFormed(Tail(Tail(bs)))

\* C1: a request for an identifier with no directory ends with status 404.
C1_MissingDirectoryGives404 ==
    \A r \in Requests :
        Done(r) /\ TheDir(r).kind = "absent" => req[r].resp.status = 404

\* C2: a request for an identifier whose directory has no entry ending in
\* '.txt' ends with status 404.
C2_NoTextFileGives404 ==
    \A r \in Requests :
        Done(r) /\ TheDir(r).kind = "dir" /\ TxtEntries(TheDir(r)) = {}
            => req[r].resp.status = 404

\* C3: a reported size above 50 MiB ends with status 413 and the file is
\* never opened or read; a size of exactly 50 MiB is not rejected.
C3_OversizeGives413 ==
    \A r \in Requests :
        Done(r) /\ "getsize" \in {req[r].steps[i] : i \in 1..Len(req[r].steps)}
            => /\ req[r].file_size > MAX_FILE_SIZE_BYTES
                    => /\ req[r].resp.status = 413
                       /\ Len(req[r].steps) = 3
               /\ req[r].file_size = MAX_FILE_SIZE_BYTES => Len(req[r].steps) > 3

\* C4: content that is empty or only whitespace, read after the size check
\* passed, ends with status 422 and never with 200.
C4_BlankContentGives422 ==
    \A r \in Requests :
        /\ Done(r)
        /\ Len(req[r].steps) >= 7
        /\ req[r].content.pad = 0
        /\ \A i \in 1..Len(req[r].content.head) : req[r].content.head[i] \in {10, 13, 32}
        => req[r].resp.status = 422

\* the case of C5: a listable directory with exactly one '.txt' entry, a
\* readable regular file of well-formed UTF-8, at most 50 MiB, not blank
C5_Case(r) ==
    /\ Done(r)
    /\ TheDir(r).kind = "dir"
    /\ TheDir(r).list_ok
    /\ TheDir(r).search_ok
    /\ Cardinality(TxtEntries(TheDir(r))) = 1
    /\ LET n == OnlyTxt(TheDir(r)).node
       IN  /\ n.kind = "file"
           /\ n.readable
           /\ ~n.ioerr
           /\ Len(n.head) + n.pad <= MAX_FILE_SIZE_BYTES
           /\ WellFormed(n.head)
           /\ n.pad > 0 \/ \E i \in 1..Len(n.head) : n.head[i] \notin {10, 13, 32}

C5_Headers(r) ==
    /\ req[r].resp.kind = "ok"
    /\ req[r].resp.status = 200
    /\ req[r].resp.media_type = "text/plain"
    /\ int_str(req[r].resp.content_length)
         = Len(req[r].resp.body.head) + req[r].resp.body.pad
    /\ req[r].resp.content_disposition = ATTACHMENT \o OnlyTxt(TheDir(r)).name

RaisedAfterListing(r, cls) ==
    /\ Done(r)
    /\ Len(req[r].txt_files) > 0
    /\ Len(req[r].steps) \in {3, 4}
    /\ req[r].raised.cls = cls

\* C6: after a successful listing, permission-denied in the size check or
\* the read gives 403 and file-not-found gives 404, never 500.
C6_RaceErrorsClassified ==
    \A r \in Requests :
        /\ RaisedAfterListing(r, "PermissionError") => req[r].resp.status = 403
        /\ RaisedAfterListing(r, "FileNotFoundError") => req[r].resp.status = 404

C6_Witness ==
    \E r1, r2 \in Requests :
        /\ RaisedAfterListing(r1, "FileNotFoundError")
        /\ req[r1].v1 > req[r1].v0
        /\ req[r1].resp.status = 404
        /\ RaisedAfterListing(r2, "PermissionError")
        /\ req[r2].resp.status = 403

\* C7: status 500 is sent only for failures outside the classified
\* conditions, and always with the fixed detail 'Internal server error'.
C7_Only500ForUnclassified ==
    \A r \in Requests :
        Done(r) /\ req[r].resp.status = 500
            => /\ req[r].raised.cls \notin
                    {"HTTPException", "FileNotFoundError", "PermissionError"}
               /\ req[r].resp.detail = "Internal server error"

\* request r ran from start to end with its directory unchanged
Undisturbed(r) == Done(r) /\ req[r].v0 = req[r].v1

\* C8: two calls with the same identifier over an unchanged directory give
\* the same status, body and headers, in any interleaving, and no step of
\* a request changes the filesystem.
C8_Idempotent ==
    /\ [](\A r1, r2 \in Requests :
            /\ Undisturbed(r1)
            /\ Undisturbed(r2)
            /\ req[r1].digest_id = req[r2].digest_id
            /\ req[r1].v0 = req[r2].v0
            => req[r1].resp = req[r2].resp)
    /\ [][req' # req => fs' = fs]_vars

C8_Witness ==
    /\ Undisturbed("r1")
    /\ Undisturbed("r2")
    /\ req["r1"].digest_id = req["r2"].digest_id
    /\ req["r1"].v0 = req["r2"].v0
    /\ req["r1"].resp.status = 200

StepOrder ==
    <<"exists", "listdir", "getsize", "open", "read", "close", "validate", "respond">>

ErrorDetails ==
    {"Digest not found", "Permission denied accessing digest", "Internal server error"}

\* C9: the steps of a request run in the fixed order, each at most once; a
\* 200 response exists only after all of them, with validation passed; an
\* unfinished request has sent nothing and a failed one sends a fixed
\* message and no file content.
C9_StepsInOrder ==
    \A r \in Requests :
        /\ Len(req[r].steps) <= Len(StepOrder)
        /\ req[r].steps = SubSeq(StepOrder, 1, Len(req[r].steps))
        /\ ~Done(r) => req[r].resp = None
        /\ Done(r) /\ req[r].resp.kind = "ok"
              => /\ req[r].steps = StepOrder
                 /\ ~strip_is_empty(req[r].content)
                 /\ encoded_len(req[r].content) <= MAX_FILE_SIZE_BYTES
        /\ Done(r) /\ req[r].resp.kind = "error"
              => req[r].resp.detail \in ErrorDetails

C9_Witness ==
    \E r1, r2 \in Requests :
        /\ Done(r1)
        /\ req[r1].resp.kind = "ok"
        /\ Done(r2)
        /\ req[r2].resp.kind = "error"
        /\ Len(req[r2].steps) = 7

\* C10: a file handle is held only between open and the end of the read,
\* and no finished request holds one, whatever its status.
C10_HandleReleased ==
    \A r \in Requests :
        /\ req[r].fh.kind = "open" => req[r].pc \in {"read", "close"}
        /\ Done(r) => req[r].fh = None

C10_Witness ==
    \E r \in Requests :
        /\ Done(r)
        /\ req[r].raised.cls = "UnicodeDecodeError"
        /\ Len(req[r].steps) = 6
        /\ req[r].resp.status = 500

====
